---- MODULE Spec2Model ----
(***************************************************************************)
(* State-machine model of the PaymentPlatform React component of          *)
(* integral-payments.  The repository holds two versions of the component:*)
(*   platform 0  src/stellar-payment-platform-0.tsx  (JSON-loaded request,*)
(*               copy-to-clipboard feedback, per-currency connectors)     *)
(*   platform 1  src/stellar-payment-platform-1.tsx  (hard-coded request, *)
(*               one handleWalletConnect(address, network))               *)
(* The variable platform records which of the two is mounted.  Every      *)
(* handler runs to completion (single UI thread); the only deferred       *)
(* callbacks are the setTimeout callbacks of copyToClipboard.             *)
(***************************************************************************)
EXTENDS Integers, Sequences, FiniteSets, TLC

VARIABLES
    platform,        \* 0 or 1: which source file's component is mounted
    paymentData,     \* useState paymentData (platform 0) / const paymentData (platform 1)
    showXLMModal,    \* useState showXLMModal
    showUSDCModal,   \* useState showUSDCModal
    copiedAddress,   \* useState copiedAddress ('' = no feedback)
    jsonInput,       \* useState jsonInput: the textarea's text
    timers,          \* pending setTimeout callbacks: sequence of due times (ms)
    now,             \* current time in ms
    lastCopy,        \* the most recent copyToClipboard call: key, time, clipboard outcome
    consoleLog,      \* what the most recent handler wrote with console.log
    alertMsg,        \* what the most recent handler showed with alert()
    closeCall        \* whether the most recent handler was a modal's onClose, and if so
                     \* whether that modal was "open" or "closed" when it was called

vars == <<platform, paymentData, showXLMModal, showUSDCModal, copiedAddress,
          jsonInput, timers, now, lastCopy, consoleLog, alertMsg, closeCall>>

(***************************************************************************)
(* Bounds of the model.                                                    *)
(***************************************************************************)
MaxTime == 4000      \* the clock stops here
TickMs == 1000       \* the largest time step
MaxTimers == 2       \* at most this many setTimeout callbacks pending

(***************************************************************************)
(* JavaScript values, tagged by their typeof/kind.                         *)
(***************************************************************************)
Undef == [t |-> "undefined"]
Null == [t |-> "null"]
Num(n) == [t |-> "number", n |-> n]
Str(s) == [t |-> "string", s |-> s]
Arr(a) == [t |-> "array", a |-> a]
Obj(o) == [t |-> "object", o |-> o]

\* JavaScript ToBoolean, as used by || , ! and && .
Truthy(v) ==
    CASE v.t = "undefined" -> FALSE
      [] v.t = "null" -> FALSE
      [] v.t = "number" -> v.n # 0
      [] v.t = "string" -> v.s # ""
      [] OTHER -> TRUE

\* JavaScript a || b
Or(a, b) == IF Truthy(a) THEN a ELSE b

\* data.field throws a TypeError when data is null or undefined.
Throws(data) == data.t \in {"null", "undefined"}

\* data.field for data that is not null/undefined: an own property of an
\* object, undefined for a missing property and for the request's field
\* names on numbers, strings and arrays.
Get(data, field) ==
    IF data.t = "object" /\ field \in DOMAIN data.o THEN data.o[field] ELSE Undef

(***************************************************************************)
(* The texts typed into the textarea, and JSON.parse restricted to them:   *)
(* either a SyntaxError (ok = FALSE) or the value the text denotes.        *)
(***************************************************************************)
TextEmpty == ""
TextNotJson == "{not json"
TextNull == "null"
TextNumber == "42"
TextEmptyObject == "{}"
TextExample == "{\"amount\":150,\"denomination\":\"USD\",\"xlmAddresses\":[\"GABC\"],\"usdcAddresses\":[]}"
TextNoLists == "{\"amount\":150,\"denomination\":\"USD\"}"
TextNegative == "{\"amount\":-5,\"denomination\":\"USD\"}"
TextZero == "{\"amount\":0,\"denomination\":\"USD\",\"businessName\":\"Shop\"}"
TextNoDenomination == "{\"amount\":\"100\",\"xlmAddresses\":[\"\",\"GDEF\"],\"usdcAddresses\":[\"0x123\"],\"businessName\":\"Example Store\",\"description\":\"Product purchase\"}"
TextNoAmount == "{\"denomination\":\"EUR\",\"usdcAddresses\":[\"0x123\",\"0x456\"]}"

Texts == {TextEmpty, TextNotJson, TextNull, TextNumber, TextEmptyObject, TextExample,
          TextNoLists, TextNegative, TextZero, TextNoDenomination, TextNoAmount}

SyntaxError == [ok |-> FALSE]
Parsed(v) == [ok |-> TRUE, value |-> v]

JSONParse(text) ==
    CASE text = TextEmpty -> SyntaxError
      [] text = TextNotJson -> SyntaxError
      [] text = TextNull -> Parsed(Null)
      [] text = TextNumber -> Parsed(Num(42))
      [] text = TextEmptyObject -> Parsed(Obj(<<>>))
      [] text = TextExample ->
            Parsed(Obj([amount |-> Num(150), denomination |-> Str("USD"),
                        xlmAddresses |-> Arr(<<"GABC">>), usdcAddresses |-> Arr(<<>>)]))
      [] text = TextNoLists ->
            Parsed(Obj([amount |-> Num(150), denomination |-> Str("USD")]))
      [] text = TextNegative ->
            Parsed(Obj([amount |-> Num(-5), denomination |-> Str("USD")]))
      [] text = TextZero ->
            Parsed(Obj([amount |-> Num(0), denomination |-> Str("USD"),
                        businessName |-> Str("Shop")]))
      [] text = TextNoDenomination ->
            Parsed(Obj([amount |-> Str("100"), xlmAddresses |-> Arr(<<"", "GDEF">>),
                        usdcAddresses |-> Arr(<<"0x123">>),
                        businessName |-> Str("Example Store"),
                        description |-> Str("Product purchase")]))
      [] text = TextNoAmount ->
            Parsed(Obj([denomination |-> Str("EUR"),
                        usdcAddresses |-> Arr(<<"0x123", "0x456">>)]))

(***************************************************************************)
(* Platform 0: the request state and loadFromJSON.                         *)
(***************************************************************************)
ThreeBlankSlots == Arr(<<"", "", "">>)

\* useState's initial paymentData
InitialPaymentData ==
    [amount |-> Str(""),
     xlmAddresses |-> ThreeBlankSlots,
     usdcAddresses |-> ThreeBlankSlots,
     denomination |-> Str(""),
     businessName |-> Str(""),
     description |-> Str("")]

\* the object literal loadFromJSON hands to setPaymentData
LoadedPaymentData(data) ==
    [amount |-> Or(Get(data, "amount"), Str("")),
     xlmAddresses |-> Or(Get(data, "xlmAddresses"), ThreeBlankSlots),
     usdcAddresses |-> Or(Get(data, "usdcAddresses"), ThreeBlankSlots),
     denomination |-> Or(Get(data, "denomination"), Str("")),
     businessName |-> Or(Get(data, "businessName"), Str("")),
     description |-> Or(Get(data, "description"), Str(""))]

\* the try block of loadFromJSON throws: JSON.parse's SyntaxError, or the
\* TypeError of reading data.amount when data is null
LoadThrows(text) ==
    LET r == JSONParse(text) IN ~r.ok \/ Throws(r.value)

NoLog == [msg |-> ""]
NoAlert == [msg |-> ""]
InvalidJSONAlert == [msg |-> "Invalid JSON format"]

(***************************************************************************)
(* Platform 1: the hard-coded request.                                     *)
(***************************************************************************)
SamplePaymentData ==
    [amount |-> Num(150),
     currency |-> Str("USD"),
     stellarAddresses |->
        Arr(<<"GCKFBEIYTKP5RDBZ7QVRHKK5GFTYUXD5WFJE3DFXDGF3HDVYGRRHIKMR",
              "GADTMGF3XDZXGQJZF7VQXHWSYKQRQ3VBKXMDGRQXFKWYLXZM4QKJHKFM",
              "GAKBPBDMKQRQXFKWYLXZM4QKJHKFMGADTMGF3XDZXGQJZF7VQXHWSYKQ">>),
     usdcAddresses |->
        Arr(<<"0x742d35Cc6634C0532925a3b8D400a6ff5E3b0e4b",
              "0x8ba1f109551bD432803012645Hac136c22C3BA6",
              "0x1f9840a85d5aF5bf1D1762F925BDADdC4201F984">>),
     customerName |-> Str("John Doe"),
     businessName |-> Str("TechStore Solutions"),
     description |-> Str("Premium Software License"),
     orderId |-> Str("ORD-2025-001")]

\* address.slice(0, 8) on the addresses of SamplePaymentData
Slice8(address) ==
    CASE address = "GCKFBEIYTKP5RDBZ7QVRHKK5GFTYUXD5WFJE3DFXDGF3HDVYGRRHIKMR" -> "GCKFBEIY"
      [] address = "GADTMGF3XDZXGQJZF7VQXHWSYKQRQ3VBKXMDGRQXFKWYLXZM4QKJHKFM" -> "GADTMGF3"
      [] address = "GAKBPBDMKQRQXFKWYLXZM4QKJHKFMGADTMGF3XDZXGQJZF7VQXHWSYKQ" -> "GAKBPBDM"
      [] address = "0x742d35Cc6634C0532925a3b8D400a6ff5E3b0e4b" -> "0x742d35"
      [] address = "0x8ba1f109551bD432803012645Hac136c22C3BA6" -> "0x8ba1f1"
      [] address = "0x1f9840a85d5aF5bf1D1762F925BDADdC4201F984" -> "0x1f9840"

(***************************************************************************)
(* Initial state: the component has just been mounted.                     *)
(***************************************************************************)
NoCopy == [key |-> "", at |-> 0, clip |-> "none"]

Init ==
    /\ platform \in {0, 1}
    /\ paymentData = IF platform = 0 THEN InitialPaymentData ELSE SamplePaymentData
    /\ showXLMModal = FALSE
    /\ showUSDCModal = FALSE
    /\ copiedAddress = ""
    /\ jsonInput = ""
    /\ timers = <<>>
    /\ now = 0
    /\ lastCopy = NoCopy
    /\ consoleLog = NoLog
    /\ alertMsg = NoAlert
    /\ closeCall = "none"

(***************************************************************************)
(* Platform 0 handlers.                                                    *)
(***************************************************************************)
\* textarea onChange: setJsonInput(e.target.value)
setJsonInput(text) ==
    /\ platform = 0
    /\ jsonInput' = text
    /\ consoleLog' = NoLog
    /\ closeCall' = "none"
    /\ alertMsg' = NoAlert
    /\ UNCHANGED <<platform, paymentData, showXLMModal, showUSDCModal, copiedAddress,
                   timers, now, lastCopy>>

\* "Load Payment Data" onClick
loadFromJSON ==
    /\ platform = 0
    /\ IF LoadThrows(jsonInput)
         THEN /\ alertMsg' = InvalidJSONAlert
              /\ UNCHANGED paymentData
         ELSE /\ paymentData' = LoadedPaymentData(JSONParse(jsonInput).value)
              /\ alertMsg' = NoAlert
    /\ consoleLog' = NoLog
    /\ closeCall' = "none"
    /\ UNCHANGED <<platform, showXLMModal, showUSDCModal, copiedAddress, jsonInput,
                   timers, now, lastCopy>>

\* "Pay with XLM" onClick, disabled while !paymentData.amount
payWithXLM ==
    /\ platform = 0
    /\ Truthy(paymentData.amount)
    /\ showXLMModal' = TRUE
    /\ consoleLog' = NoLog
    /\ closeCall' = "none"
    /\ alertMsg' = NoAlert
    /\ UNCHANGED <<platform, paymentData, showUSDCModal, copiedAddress, jsonInput,
                   timers, now, lastCopy>>

\* "Pay with USDC" onClick, disabled while !paymentData.amount
payWithUSDC ==
    /\ platform = 0
    /\ Truthy(paymentData.amount)
    /\ showUSDCModal' = TRUE
    /\ consoleLog' = NoLog
    /\ closeCall' = "none"
    /\ alertMsg' = NoAlert
    /\ UNCHANGED <<platform, paymentData, showXLMModal, copiedAddress, jsonInput,
                   timers, now, lastCopy>>

\* a faulty onClose that toggles the flag: () => setShowXLMModal(!showXLMModal)
onCloseXLMToggles ==
    /\ showXLMModal' = ~showXLMModal
    /\ closeCall' = IF showXLMModal THEN "open" ELSE "closed"
    /\ consoleLog' = NoLog
    /\ alertMsg' = NoAlert
    /\ UNCHANGED <<platform, paymentData, showUSDCModal, copiedAddress, jsonInput,
                   timers, now, lastCopy>>

\* onClose of the XLM modal: () => setShowXLMModal(false), both platforms
onCloseXLM ==
    /\ showXLMModal' = FALSE
    /\ closeCall' = IF showXLMModal THEN "open" ELSE "closed"
    /\ consoleLog' = NoLog
    /\ alertMsg' = NoAlert
    /\ UNCHANGED <<platform, paymentData, showUSDCModal, copiedAddress, jsonInput,
                   timers, now, lastCopy>>

\* onClose of the USDC modal: () => setShowUSDCModal(false), both platforms
onCloseUSDC ==
    /\ showUSDCModal' = FALSE
    /\ closeCall' = IF showUSDCModal THEN "open" ELSE "closed"
    /\ consoleLog' = NoLog
    /\ alertMsg' = NoAlert
    /\ UNCHANGED <<platform, paymentData, showXLMModal, copiedAddress, jsonInput,
                   timers, now, lastCopy>>

\* the x button of the XLM modal, rendered only while isOpen
closeXLMModal == showXLMModal /\ onCloseXLM

\* the x button of the USDC modal, rendered only while isOpen
closeUSDCModal == showUSDCModal /\ onCloseUSDC

Currencies == {"XLM", "USDC"}

\* the isOpen prop of the WalletModal of a currency
IsOpen(currency) == IF currency = "XLM" THEN showXLMModal ELSE showUSDCModal

\* the addresses prop of the WalletModal of a currency (platform 0)
Addresses(currency) ==
    IF currency = "XLM" THEN paymentData.xlmAddresses.a ELSE paymentData.usdcAddresses.a

\* the indices addresses.map renders entries for
Indices(addresses) == 0 .. (Len(addresses) - 1)

\* the template literal `${currency}-${index}`
CopyKey(currency, index) == currency \o "-" \o ToString(index)

\* setTimeout's delay in copyToClipboard
CopiedDelay == 2000

\* what navigator.clipboard.writeText's promise does; copyToClipboard
\* neither awaits nor catches it
ClipboardOutcomes == {"resolved", "rejected"}

\* the Copy button of entry index in the open WalletModal of a currency:
\* copyToClipboard(address, `${currency}-${index}`)
copyToClipboard(currency, index, clip) ==
    /\ platform = 0
    /\ IsOpen(currency)
    /\ index \in Indices(Addresses(currency))
    /\ Len(timers) < MaxTimers
    /\ copiedAddress' = CopyKey(currency, index)
    /\ timers' = Append(timers, now + CopiedDelay)
    /\ lastCopy' = [key |-> CopyKey(currency, index), at |-> now, clip |-> clip]
    /\ consoleLog' = NoLog
    /\ closeCall' = "none"
    /\ alertMsg' = NoAlert
    /\ UNCHANGED <<platform, paymentData, showXLMModal, showUSDCModal, jsonInput, now>>

\* the setTimeout callback () => setCopiedAddress(''), run when it is due
copiedTimeout ==
    /\ timers # <<>>
    /\ Head(timers) <= now
    /\ copiedAddress' = ""
    /\ timers' = Tail(timers)
    /\ consoleLog' = NoLog
    /\ closeCall' = "none"
    /\ alertMsg' = NoAlert
    /\ UNCHANGED <<platform, paymentData, showXLMModal, showUSDCModal, jsonInput,
                   now, lastCopy>>

\* "Connect to Stellar Wallet" of entry index in the open XLM modal
connectToStellarWallet(index) ==
    /\ platform = 0
    /\ showXLMModal
    /\ index \in Indices(Addresses("XLM"))
    /\ closeCall' = "none"
    /\ LET address == Addresses("XLM")[index + 1] IN
         /\ consoleLog' = [msg |-> "Connecting to Stellar Wallet for address",
                           wallet |-> "Stellar", address |-> address]
         /\ alertMsg' = [msg |-> "Connecting to Stellar Wallet for payment of",
                         amount |-> paymentData.amount, currency |-> "XLM",
                         address |-> address]
    /\ UNCHANGED <<platform, paymentData, showXLMModal, showUSDCModal, copiedAddress,
                   jsonInput, timers, now, lastCopy>>

\* "Connect to USDC Wallet" of entry index in the open USDC modal
connectToUSDCWallet(index) ==
    /\ platform = 0
    /\ showUSDCModal
    /\ index \in Indices(Addresses("USDC"))
    /\ closeCall' = "none"
    /\ LET address == Addresses("USDC")[index + 1] IN
         /\ consoleLog' = [msg |-> "Connecting to USDC Wallet for address",
                           wallet |-> "USDC", address |-> address]
         /\ alertMsg' = [msg |-> "Connecting to USDC Wallet for payment of",
                         amount |-> paymentData.amount, currency |-> "USDC",
                         address |-> address]
    /\ UNCHANGED <<platform, paymentData, showXLMModal, showUSDCModal, copiedAddress,
                   jsonInput, timers, now, lastCopy>>

(***************************************************************************)
(* Platform 1 handlers.                                                    *)
(***************************************************************************)
handleXLMPayment ==
    /\ platform = 1
    /\ showXLMModal' = TRUE
    /\ consoleLog' = NoLog
    /\ closeCall' = "none"
    /\ alertMsg' = NoAlert
    /\ UNCHANGED <<platform, paymentData, showUSDCModal, copiedAddress, jsonInput,
                   timers, now, lastCopy>>

handleUSDCPayment ==
    /\ platform = 1
    /\ showUSDCModal' = TRUE
    /\ consoleLog' = NoLog
    /\ closeCall' = "none"
    /\ alertMsg' = NoAlert
    /\ UNCHANGED <<platform, paymentData, showXLMModal, copiedAddress, jsonInput,
                   timers, now, lastCopy>>

handleWalletConnect(address, network) ==
    /\ closeCall' = "none"
    /\ consoleLog' = [msg |-> "Connecting to wallet for address",
                      wallet |-> network, address |-> address]
    /\ alertMsg' = IF network = "stellar"
                     THEN [msg |-> "Connecting to Stellar Wallet Kit for address",
                           address |-> Slice8(address)]
                     ELSE [msg |-> "Connecting to Web3 Wallet for address",
                           address |-> Slice8(address)]
    /\ UNCHANGED <<platform, paymentData, showXLMModal, showUSDCModal, copiedAddress,
                   jsonInput, timers, now, lastCopy>>

\* "Connect Wallet" of an AddressButton in the open XLM modal: network="stellar"
stellarAddressButton(index) ==
    /\ platform = 1
    /\ showXLMModal
    /\ index \in Indices(paymentData.stellarAddresses.a)
    /\ handleWalletConnect(paymentData.stellarAddresses.a[index + 1], "stellar")

\* "Connect Wallet" of an AddressButton in the open USDC modal: network="ethereum"
usdcAddressButton(index) ==
    /\ platform = 1
    /\ showUSDCModal
    /\ index \in Indices(paymentData.usdcAddresses.a)
    /\ handleWalletConnect(paymentData.usdcAddresses.a[index + 1], "ethereum")

(***************************************************************************)
(* Time.                                                                   *)
(***************************************************************************)
Min(S) == CHOOSE m \in S : \A n \in S : m <= n

\* time passes, by at most TickMs and never past a callback that is due
Tick ==
    /\ now < MaxTime
    /\ IF timers = <<>> THEN TRUE ELSE Head(timers) > now
    /\ now' = Min({now + TickMs, MaxTime} \cup (IF timers = <<>> THEN {} ELSE {Head(timers)}))
    /\ UNCHANGED <<platform, paymentData, showXLMModal, showUSDCModal, copiedAddress,
                   jsonInput, timers, lastCopy, consoleLog, alertMsg, closeCall>>

MaxIndex == 2    \* the largest entry index of any address list of the model

Next ==
    \/ \E text \in Texts : setJsonInput(text)
    \/ loadFromJSON
    \/ payWithXLM
    \/ payWithUSDC
    \/ closeXLMModal
    \/ closeUSDCModal
    \/ \E currency \in Currencies, index \in 0 .. MaxIndex, clip \in ClipboardOutcomes :
          copyToClipboard(currency, index, clip)
    \/ copiedTimeout
    \/ \E index \in 0 .. MaxIndex : connectToStellarWallet(index)
    \/ \E index \in 0 .. MaxIndex : connectToUSDCWallet(index)
    \/ handleXLMPayment
    \/ handleUSDCPayment
    \/ \E index \in 0 .. MaxIndex : stellarAddressButton(index)
    \/ \E index \in 0 .. MaxIndex : usdcAddressButton(index)
    \/ Tick

Spec == Init /\ [][Next]_vars

\* The component driven as a caller of its props would drive it: besides the
\* user's actions, the onClose handlers are invoked whether or not their
\* modal is rendered.
NextDirect ==
    \/ Next
    \/ onCloseXLM
    \/ onCloseUSDC

SpecDirect == Init /\ [][NextDirect]_vars

(***************************************************************************)
(* Vocabulary of the specification, read off the component's state.        *)
(***************************************************************************)
NetworkKind == {"stellar", "usdc"}

\* the specification's "a request is loaded": the test the component itself
\* uses to show the payment details and to enable the Pay buttons
RequestLoaded == Truthy(paymentData.amount)

\* ModalOpen(network): that network's modal is the one that is visible
ModalOpen(network) ==
    CASE network = "stellar" -> showXLMModal /\ ~showUSDCModal
      [] network = "usdc" -> showUSDCModal /\ ~showXLMModal
      [] OTHER -> FALSE

\* JavaScript ToNumber on the strings the texts of the model give as amount
StringToNumber(s) ==
    CASE s = "" -> 0
      [] s = "100" -> 100

\* v > 0 for a present amount
Positive(v) ==
    CASE v.t = "number" -> v.n > 0
      [] v.t = "string" -> StringToNumber(v.s) > 0
      [] OTHER -> FALSE

\* the text denotes a structured record
IsRecord(text) == JSONParse(text).ok /\ JSONParse(text).value.t = "object"

\* a field of the record a text denotes (undefined when absent)
RawField(text, field) == Get(JSONParse(text).value, field)

\* a raw input that is missing amount or has amount <= 0
AmountMissingOrNonPositive(text) ==
    IsRecord(text) /\ ~Positive(RawField(text, "amount"))

\* a valid raw input: amount > 0 and a non-empty denomination
ValidInput(text) ==
    /\ IsRecord(text)
    /\ Positive(RawField(text, "amount"))
    /\ RawField(text, "denomination").t = "string"
    /\ RawField(text, "denomination").s # ""

\* the request the specification's Validator builds from a valid raw input
Defaulted(text) ==
    LET field(f, default) ==
            IF RawField(text, f).t = "undefined" THEN default ELSE RawField(text, f)
    IN [amount |-> RawField(text, "amount"),
        xlmAddresses |-> field("xlmAddresses", Arr(<<>>)),
        usdcAddresses |-> field("usdcAddresses", Arr(<<>>)),
        denomination |-> RawField(text, "denomination"),
        businessName |-> field("businessName", Str("")),
        description |-> field("description", Str(""))]

\* a Connect button was pressed, on either platform
Connect ==
    \E index \in 0 .. MaxIndex :
        \/ connectToStellarWallet(index)
        \/ connectToUSDCWallet(index)
        \/ stellarAddressButton(index)
        \/ usdcAddressButton(index)

\* the network the last Connect handed to its connector: on platform 0 the
\* connector function itself (connectToStellarWallet / connectToUSDCWallet),
\* on platform 1 the network argument of handleWalletConnect
PassedNetwork ==
    IF platform = 0
      THEN (IF consoleLog.wallet = "Stellar" THEN "stellar" ELSE "usdc")
      ELSE consoleLog.wallet

\* no setTimeout callback is due and not yet run
NothingDue == IF timers = <<>> THEN TRUE ELSE Head(timers) > now

(***************************************************************************)
(* The claims.                                                             *)
(***************************************************************************)

\* C2: clipboard feedback expiry.  While less than 2000 ms have passed since
\* the latest successful copy, the feedback of the copied entry is active
\* (an earlier copy's timer never clears it); once 2000 ms have passed and
\* the due callbacks have run, it is inactive.
C2_FeedbackLastsFromLatestCopy ==
    lastCopy.clip = "resolved" =>
        /\ now < lastCopy.at + CopiedDelay => copiedAddress = lastCopy.key
        /\ (now >= lastCopy.at + CopiedDelay /\ NothingDue) => copiedAddress # lastCopy.key

\* C3: mutual exclusivity.  In every reachable state at most one network's
\* modal is visible.
C3_AtMostOneModal == ~(showXLMModal /\ showUSDCModal)

\* C4: a load of a raw input that is missing amount or has amount <= 0 fails
\* (an error is shown) and leaves the session's request exactly as it was.
C4_BadAmountLeavesRequest ==
    [][(loadFromJSON /\ AmountMissingOrNonPositive(jsonInput))
          => (paymentData' = paymentData /\ alertMsg' # NoAlert)]_vars

\* C5: in every reachable state a request the session holds has amount > 0
\* and a non-empty denomination.
C5_HeldRequestIsValid ==
    (platform = 0 /\ RequestLoaded) =>
        (Positive(paymentData.amount) /\ Truthy(paymentData.denomination))

\* C6: immediately after a load that succeeds no clipboard feedback entry is
\* active, whatever copies preceded it.
C6_LoadClearsFeedback ==
    [][(loadFromJSON /\ ValidInput(jsonInput)) => copiedAddress' = ""]_vars

\* C7: when the clipboard write fails, copy leaves the feedback state as it
\* was before the call.
C7_FailedCopySetsNoFeedback ==
    [][(\E currency \in Currencies, index \in 0 .. MaxIndex :
            copyToClipboard(currency, index, "rejected"))
          => (copiedAddress' = copiedAddress /\ timers' = timers)]_vars

\* C8: a load of input that does not parse as a structured record fails
\* with an error and changes neither the request, nor the modal visibility,
\* nor the feedback.
C8_MalformedLoadChangesNothing ==
    [][(loadFromJSON /\ ~IsRecord(jsonInput))
          => (/\ alertMsg' = InvalidJSONAlert
              /\ UNCHANGED <<paymentData, showXLMModal, showUSDCModal, copiedAddress>>)]_vars

\* C9: a load of a valid raw input succeeds and installs the input with the
\* defaults applied: absent businessName/description become the empty
\* string, an absent address list becomes the empty sequence, a present
\* address list is kept as it is.
C9_LoadInstallsDefaultedInput ==
    [][(loadFromJSON /\ ValidInput(jsonInput))
          => (paymentData' = Defaulted(jsonInput) /\ alertMsg' = NoAlert)]_vars

\* C10: a connection is started for an entry of network N only while the
\* view is ModalOpen(N), and the network handed to the connector is that N,
\* a member of {stellar, usdc}.
C10_ConnectOnlyInMatchingModal ==
    [][Connect => (PassedNetwork' \in NetworkKind /\ ModalOpen(PassedNetwork'))]_vars

\* C11: closeModal is idempotent.  An onClose handler called while its modal
\* is not open (in particular while no modal is open, or right after a close
\* of the same modal) changes neither the request, nor the modal visibility,
\* nor the clipboard feedback and its timers, and shows no error.
C11_CloseWhenClosedIsNoOp ==
    [][((onCloseXLM /\ ~showXLMModal) \/ (onCloseUSDC /\ ~showUSDCModal))
          => (/\ UNCHANGED <<paymentData, showXLMModal, showUSDCModal, copiedAddress, timers>>
              /\ alertMsg' = NoAlert)]_vars

\* C11 witness: with a request loaded and a copy feedback active, an onClose
\* handler has just been called while no modal was open.
C11_ClosedWithNoModalOpen ==
    /\ closeCall = "closed"
    /\ ~showXLMModal /\ ~showUSDCModal
    /\ platform = 0 /\ RequestLoaded
    /\ copiedAddress # ""

\* C12: in every reachable state a modal is open only if a payment request
\* is loaded.
C12_ModalOnlyWithRequest ==
    (showXLMModal \/ showUSDCModal) => RequestLoaded

====
